---- MODULE Spec2Model ----
(***************************************************************************)
(* Model of the Instagram transcript agent: the ingestion batch of         *)
(* pipeline.run_pipeline (fetch, download, audio extraction,               *)
(* transcription, transcript write, chunking, indexing, persist), and the  *)
(* /query and /update handlers of app.py.                                  *)
(*                                                                         *)
(* Text (Python str) is a sequence of one-character strings.  External     *)
(* calls (Instagram, moviepy, OpenAI, Chroma, the file system) either      *)
(* return or raise; a raise is never caught by the source, so it ends the  *)
(* request.                                                                *)
(***************************************************************************)
EXTENDS Integers, Sequences, FiniteSets, TLC

\* ------------------------------------------------------------------ bounds
MaxItems == 3       \* posts of the target account
MaxRuns == 2        \* /update requests served
MaxLen == 5         \* longest text given to the chunker on its own
MaxSize == 3        \* largest chunk size given to the chunker on its own
MaxTopK == 2        \* largest top_k of a /query request

\* ------------------------------------------------------- program constants
chunk_size == 500   \* pipeline.py: chunk_size = 500
VIDEO == 2          \* pipeline.py: m.media_type != 2

\* String literals of the source, without their accents.
VIDEO_DIR == "videos"
TRANSCRIPTS_DIR == "transcripts"
StatusMsg == "Pipeline execute, nouvelles videos indexees"
PromptHead == "Reponds a la question uniquement avec le contexte ci-dessous:\n"
PromptQuestion == "\n\nQuestion: "

VARIABLES
    account,        \* the posts of TARGET_ACCOUNT, most recent first
    addPolicy,      \* what collection.add does with an id the store holds
    pc,             \* position of the /update request in run_pipeline
    runs,           \* /update requests started so far
    medias,         \* the batch fetched by cl.user_medias
    idx,            \* position of the for loop in medias (1-based)
    video_path,     \* local of run_pipeline
    text,           \* local of run_pipeline: transcript.text
    chunks,         \* local of run_pipeline
    ci,             \* position of the enumerate loop in chunks (1-based)
    store,          \* the Chroma collection: a sequence of entries
    persisted,      \* the collection as last written by chroma_client.persist()
    files,          \* the file system: path -> content
    trace,          \* history of the current run: the steps taken, item by item
    response,       \* what the last /update request returned
    qpc,            \* position of the /query request in query_agent
    question,       \* parameter of query_agent
    top_k,          \* parameter of query_agent
    queryPolicy,    \* what collection.query does when asked for more than it holds
    results,        \* local of query_agent: results['documents'][0]
    context,        \* local of query_agent
    prompt,         \* local of query_agent
    llmCalls,       \* history: prompts sent to the generation model by the request
    llmText,        \* response.choices[0].message.content
    answer,         \* what the last /query request returned
    cpc,            \* chunker on its own: "in" before the call, "out" after
    cin,            \* chunker on its own: the text and size given
    cout            \* chunker on its own: the chunks returned

pvars == <<account, addPolicy, pc, runs, medias, idx, video_path, text, chunks, ci,
           store, persisted, files, trace, response>>
qvars == <<qpc, question, top_k, queryPolicy, results, context, prompt,
           llmCalls, llmText, answer>>
cvars == <<cpc, cin, cout>>
vars == <<pvars, qvars, cvars>>

\* ------------------------------------------------------------ text helpers
Min(a, b) == IF a < b THEN a ELSE b

DigitChar(d) == <<"0", "1", "2", "3", "4", "5", "6", "7", "8", "9">>[d + 1]

\* str(n) of a non-negative integer: its decimal digits
RECURSIVE Str(_)
Str(n) == IF n < 10 THEN <<DigitChar(n)>> ELSE Str(n \div 10) \o <<DigitChar(n % 10)>>

RECURSIVE Concat(_)
Concat(ss) == IF ss = <<>> THEN <<>> ELSE Head(ss) \o Concat(Tail(ss))

\* sep.join(ss)
RECURSIVE Join(_, _)
Join(ss, sep) ==
    IF ss = <<>> THEN <<>>
    ELSE IF Len(ss) = 1 THEN ss[1]
    ELSE ss[1] \o sep \o Join(Tail(ss), sep)

\* -------------------------------------------------------------- the chunker
\* [text[i:i+size] for i in range(0, len(text), size)]: one slice per start
\* offset 0, size, 2*size, ... below len(text); a slice stops at the end of text
NumChunks(t, size) == (Len(t) + size - 1) \div size

\* range(0, len(text) - size + 1, size): the shorter last slice is lost
ChunkDropsTail(t, size) ==
    [k \in 1..(Len(t) \div size) |-> SubSeq(t, (k - 1) * size + 1, k * size)]

Chunk(t, size) ==
    [k \in 1..NumChunks(t, size) |->
        SubSeq(t, (k - 1) * size + 1, Min(k * size, Len(t)))]

\* ------------------------------------------------------------------- paths
\* A path is its directory, the stem of its file name and the extension.
NoPath == [dir |-> "", stem |-> <<>>, ext |-> ""]

\* cl.video_download(m.pk, VIDEO_DIR): one .mp4 per media id under VIDEO_DIR
DownloadPath(pk) == [dir |-> VIDEO_DIR, stem |-> Str(pk), ext |-> ".mp4"]

\* name.replace(old, new) on the extension of a file name
ReplaceExt(p, old, new) == IF p.ext = old THEN [p EXCEPT !.ext = new] ELSE p

\* os.path.basename(p)
Basename(p) == [stem |-> p.stem, ext |-> p.ext]

audio_path == ReplaceExt(video_path, ".mp4", ".mp3")

transcript_path ==
    [dir |-> TRANSCRIPTS_DIR,
     stem |-> ReplaceExt(video_path, ".mp4", ".txt").stem,
     ext |-> ReplaceExt(video_path, ".mp4", ".txt").ext]

\* open(path, "w").write(content): creates the file or replaces its content
WriteFile(fs, path, content) ==
    [p \in DOMAIN fs \cup {path} |-> IF p = path THEN content ELSE fs[p]]

\* ------------------------------------------------------------------- store
\* f"{m.pk}_chunk_{i}"
ChunkId(pk, i) == Str(pk) \o <<"_", "c", "h", "u", "n", "k", "_">> \o Str(i)

\* the arguments of one collection.add call: chunk i (0-based) of media pk
Entry(pk, i, chunk, vpath) ==
    [id |-> ChunkId(pk, i),
     document |-> chunk,
     metadata |-> [source |-> Basename(vpath), chunk |-> i]]

StoreIds(st) == {st[k].id : k \in 1..Len(st)}

AddPolicies == {"raise", "append", "ignore"}

\* collection.add(documents=[..], metadatas=[..], ids=[..]) that returns: the entry
\* is appended; when the store already holds the id, the library either keeps the
\* stored entry and drops the new one ("ignore") or stores both ("append").  Under
\* "raise" the call does not return for a held id (AddRaises).
\* an add that first deletes what the store holds of the same source file
AddPruning(st, e, policy) ==
    Append(SelectSeq(st, LAMBDA x : x.metadata.source # e.metadata.source), e)

Add(st, e, policy) ==
    IF e.id \in StoreIds(st) /\ policy = "ignore" THEN st ELSE Append(st, e)

AddRaises(st, e, policy) == e.id \in StoreIds(st) /\ policy = "raise"

\* ----------------------------------------------------------- media account
\* Media ids are opaque and unique; 1 and 12 are there because one id can be
\* the beginning of another.
PkOf(i) == CASE i = 1 -> 42 [] i = 2 -> 1 [] i = 3 -> 12 [] OTHER -> 100 + i

\* Two accounts: video, photo, video, album, ... and photo, video, video, album, ...
\* (media_type 1 is a photo, 2 a video, 8 an album)
Layouts == {"vpv", "pvv"}

TypeOf(layout, i) ==
    CASE i = 1 -> IF layout = "vpv" THEN VIDEO ELSE 1
      [] i = 2 -> IF layout = "vpv" THEN 1 ELSE VIDEO
      [] i = 3 -> VIDEO
      [] OTHER -> 8

Accounts ==
    {[i \in 1..MaxItems |-> [pk |-> PkOf(i), media_type |-> TypeOf(l, i)]] :
        l \in Layouts}

\* cl.user_medias(user_id, limit)
UserMedias(limit) == SubSeq(account, 1, Min(limit, Len(account)))

\* if m.media_type == 8: continue
IsNotAlbum(x) == x.media_type # 8

\* if m.media_type != 2: continue
IsVideo(x) == x.media_type = VIDEO

\* what the transcription service can return: nothing, a word, several chunks
Speech(c, n) == [i \in 1..n |-> IF i % 7 = 0 THEN " " ELSE c]

Texts == {Speech("a", 0), Speech("a", 1), Speech("b", chunk_size + 1)}

\* --------------------------------------------------------------- run_pipeline
m == medias[idx]

Ev(op, pk) == [op |-> op, pk |-> pk]

NoResponse == [kind |-> "none"]

Raise(stage) ==
    /\ pc' = "raised"
    /\ response' = [kind |-> "error", stage |-> stage]

\* app.update_pipeline calls run_pipeline(limit); medias = cl.user_medias(...)
Fetch(limit) ==
    /\ pc \in {"idle", "done", "raised"}
    /\ runs < MaxRuns
    /\ runs' = runs + 1
    /\ medias' = UserMedias(limit)
    /\ idx' = 1
    /\ pc' = "loop"
    /\ video_path' = NoPath
    /\ text' = <<>>
    /\ chunks' = <<>>
    /\ ci' = 0
    /\ trace' = <<>>
    /\ response' = NoResponse
    /\ UNCHANGED <<account, addPolicy, store, persisted, files>>

FetchFail ==
    /\ pc \in {"idle", "done", "raised"}
    /\ runs < MaxRuns
    /\ runs' = runs + 1
    /\ medias' = <<>>
    /\ idx' = 1
    /\ video_path' = NoPath
    /\ text' = <<>>
    /\ chunks' = <<>>
    /\ ci' = 0
    /\ trace' = <<>>
    /\ Raise("fetch")
    /\ UNCHANGED <<account, addPolicy, store, persisted, files>>

\* for m in medias: the loop is over
LoopEnd ==
    /\ pc = "loop"
    /\ idx > Len(medias)
    /\ pc' = "persist"
    /\ UNCHANGED <<account, addPolicy, runs, medias, idx, video_path, text, chunks, ci,
                   store, persisted, files, trace, response>>

\* if m.media_type != 2: continue
Skip ==
    /\ pc = "loop"
    /\ idx <= Len(medias)
    /\ ~IsVideo(m)
    /\ idx' = idx + 1
    /\ trace' = Append(trace, Ev("skip", m.pk))
    /\ UNCHANGED <<account, addPolicy, pc, runs, medias, video_path, text, chunks, ci,
                   store, persisted, files, response>>

Enter ==
    /\ pc = "loop"
    /\ idx <= Len(medias)
    /\ IsVideo(m)
    /\ pc' = "download"
    /\ UNCHANGED <<account, addPolicy, runs, medias, idx, video_path, text, chunks, ci,
                   store, persisted, files, trace, response>>

\* video_path = cl.video_download(m.pk, VIDEO_DIR)
Download ==
    /\ pc = "download"
    /\ trace' = Append(trace, Ev("download", m.pk))
    /\ video_path' = DownloadPath(m.pk)
    /\ files' = WriteFile(files, DownloadPath(m.pk), <<"mp4">>)
    /\ pc' = "extract"
    /\ UNCHANGED <<account, addPolicy, runs, medias, idx, text, chunks, ci, store,
                   persisted, response>>

DownloadFail ==
    /\ pc = "download"
    /\ trace' = Append(trace, Ev("download", m.pk))
    /\ Raise("download")
    /\ UNCHANGED <<account, addPolicy, runs, medias, idx, video_path, text, chunks, ci,
                   store, persisted, files>>

\* clip = VideoFileClip(video_path); clip.audio.write_audiofile(audio_path)
ExtractAudio ==
    /\ pc = "extract"
    /\ video_path \in DOMAIN files
    /\ trace' = Append(trace, Ev("audio", m.pk))
    /\ files' = WriteFile(files, audio_path, <<"mp3">>)
    /\ pc' = "transcribe"
    /\ UNCHANGED <<account, addPolicy, runs, medias, idx, video_path, text, chunks, ci,
                   store, persisted, response>>

ExtractAudioFail ==
    /\ pc = "extract"
    /\ trace' = Append(trace, Ev("audio", m.pk))
    /\ Raise("audio")
    /\ UNCHANGED <<account, addPolicy, runs, medias, idx, video_path, text, chunks, ci,
                   store, persisted, files>>

\* transcript = client_openai.audio.transcriptions.create(...); text = transcript.text
Transcribe(t) ==
    /\ pc = "transcribe"
    /\ audio_path \in DOMAIN files
    /\ trace' = Append(trace, Ev("transcribe", m.pk))
    /\ text' = t
    /\ pc' = "write"
    /\ UNCHANGED <<account, addPolicy, runs, medias, idx, video_path, chunks, ci, store,
                   persisted, files, response>>

TranscribeFail ==
    /\ pc = "transcribe"
    /\ trace' = Append(trace, Ev("transcribe", m.pk))
    /\ Raise("transcribe")
    /\ UNCHANGED <<account, addPolicy, runs, medias, idx, video_path, text, chunks, ci,
                   store, persisted, files>>

\* the transcript write moved behind the indexing loop
WriteTranscriptAfterIndexing ==
    /\ pc = "write"
    /\ pc' = "chunk"
    /\ UNCHANGED <<account, addPolicy, runs, medias, idx, video_path, text, chunks, ci,
                   store, persisted, files, trace, response>>

\* with open(transcript_path, "w", encoding="utf-8") as f: f.write(text)
WriteTranscript ==
    /\ pc = "write"
    /\ trace' = Append(trace, Ev("write", m.pk))
    /\ files' = WriteFile(files, transcript_path, text)
    /\ pc' = "chunk"
    /\ UNCHANGED <<account, addPolicy, runs, medias, idx, video_path, text, chunks, ci,
                   store, persisted, response>>

\* open(.., "w") raises and leaves the file alone, or f.write raises after open
\* has emptied the file
WriteTranscriptFail ==
    /\ pc = "write"
    /\ trace' = Append(trace, Ev("write", m.pk))
    /\ \/ files' = files
       \/ files' = WriteFile(files, transcript_path, <<>>)
    /\ Raise("write")
    /\ UNCHANGED <<account, addPolicy, runs, medias, idx, video_path, text, chunks, ci,
                   store, persisted>>

\* chunks = [text[i:i+chunk_size] for i in range(0, len(text), chunk_size)]
ChunkText ==
    /\ pc = "chunk"
    /\ chunks' = Chunk(text, chunk_size)
    /\ ci' = 1
    /\ pc' = "index"
    /\ UNCHANGED <<account, addPolicy, runs, medias, idx, video_path, text, store,
                   persisted, files, trace, response>>

NewEntry == Entry(m.pk, ci - 1, chunks[ci], video_path)

\* for i, chunk in enumerate(chunks): collection.add(...)
IndexChunk ==
    /\ pc = "index"
    /\ ci <= Len(chunks)
    /\ ~AddRaises(store, NewEntry, addPolicy)
    /\ trace' = Append(trace, Ev("add", m.pk))
    /\ store' = Add(store, NewEntry, addPolicy)
    /\ ci' = ci + 1
    /\ UNCHANGED <<account, addPolicy, pc, runs, medias, idx, video_path, text, chunks,
                   persisted, files, response>>

\* collection.add raises: the embedding call or the store write fails, or the
\* store refuses an id it already holds
IndexChunkFail ==
    /\ pc = "index"
    /\ ci <= Len(chunks)
    /\ trace' = Append(trace, Ev("add", m.pk))
    /\ Raise("index")
    /\ UNCHANGED <<account, addPolicy, runs, medias, idx, video_path, text, chunks, ci,
                   store, persisted, files>>

\* chroma_client.persist() indented into the for loop
ItemDonePersisting ==
    /\ pc = "index"
    /\ ci > Len(chunks)
    /\ trace' = Append(Append(trace, Ev("done", m.pk)), Ev("persist", 0))
    /\ persisted' = store
    /\ idx' = idx + 1
    /\ pc' = "loop"
    /\ UNCHANGED <<account, addPolicy, runs, medias, video_path, text, chunks, ci,
                   store, files, response>>

\* the enumerate loop is over: on to the next m
ItemDone ==
    /\ pc = "index"
    /\ ci > Len(chunks)
    /\ trace' = Append(trace, Ev("done", m.pk))
    /\ idx' = idx + 1
    /\ pc' = "loop"
    /\ UNCHANGED <<account, addPolicy, runs, medias, video_path, text, chunks, ci,
                   store, persisted, files, response>>

\* chroma_client.persist(); print(...); update_pipeline returns its status
Persist ==
    /\ pc = "persist"
    /\ trace' = Append(trace, Ev("persist", 0))
    /\ persisted' = store
    /\ pc' = "done"
    /\ response' = [kind |-> "ok", status |-> StatusMsg]
    /\ UNCHANGED <<account, addPolicy, runs, medias, idx, video_path, text, chunks, ci,
                   store, files>>

PipelineInit ==
    /\ account \in Accounts
    /\ addPolicy \in AddPolicies
    /\ pc = "idle"
    /\ runs = 0
    /\ medias = <<>>
    /\ idx = 1
    /\ video_path = NoPath
    /\ text = <<>>
    /\ chunks = <<>>
    /\ ci = 0
    /\ store = <<>>
    /\ persisted = <<>>
    /\ files = <<>>
    /\ trace = <<>>
    /\ response = NoResponse

\* ---------------------------------------------------------------- query_agent
Questions == {<<"q", "1", "?">>, <<"q", "2", "?">>}

\* what the generation model can say
LlmTexts == {<<"P", "a", "r", "i", "s">>, <<>>}

QueryPolicies == {"strict", "clamp"}

\* collection.query(query_texts=[question], n_results=k) that returns: the stored
\* entries ranked by similarity to the question, which the embeddings decide, so
\* any order of any n of them; n is k, or the size of the store when it holds
\* fewer ("clamp").  Under "strict" the call does not return when the store holds
\* fewer than k entries (QueryRaises).
Rankings(st, k) ==
    {r \in [1..Min(k, Len(st)) -> 1..Len(st)] :
        \A i, j \in DOMAIN r : i # j => r[i] # r[j]}

QueryRaises(st, k, policy) == policy = "strict" /\ Len(st) < k

\* results['documents'][0]
Documents(st, r) == [j \in DOMAIN r |-> st[r[j]].document]

\* " ".join(...)
ContextSpaces(docs) == Join(docs, <<" ">>)

\* "\n".join([doc for doc in results['documents'][0]])
Context(docs) == Join(docs, <<"\n">>)

\* f"Reponds ... ci-dessous:\n{context}\n\nQuestion: {question}"; the two
\* literal parts are one element each
Prompt(ctx, q) == <<PromptHead>> \o ctx \o <<PromptQuestion>> \o q

\* POST /query?question=&top_k=
QueryRequest(q, k) ==
    /\ qpc \in {"idle", "returned", "raised"}
    /\ qpc' = "retrieve"
    /\ question' = q
    /\ top_k' = k
    /\ results' = <<>>
    /\ context' = <<>>
    /\ prompt' = <<>>
    /\ llmCalls' = <<>>
    /\ llmText' = <<>>
    /\ answer' = NoResponse
    /\ UNCHANGED queryPolicy

\* results = collection.query(...); context = ...; prompt = ...
Retrieve(r) ==
    /\ qpc = "retrieve"
    /\ ~QueryRaises(store, top_k, queryPolicy)
    /\ results' = Documents(store, r)
    /\ context' = Context(Documents(store, r))
    /\ prompt' = Prompt(Context(Documents(store, r)), question)
    /\ qpc' = "generate"
    /\ UNCHANGED <<question, top_k, queryPolicy, llmCalls, llmText, answer>>

\* collection.query raises: the embedding call or the store fails, or the store
\* refuses a request for more entries than it holds
RetrieveFail ==
    /\ qpc = "retrieve"
    /\ qpc' = "raised"
    /\ answer' = [kind |-> "error", stage |-> "retrieve"]
    /\ UNCHANGED <<question, top_k, queryPolicy, results, context, prompt,
                   llmCalls, llmText>>

\* response = client_openai.chat.completions.create(model=.., messages=[..prompt..])
Generate(t) ==
    /\ qpc = "generate"
    /\ llmCalls' = Append(llmCalls, prompt)
    /\ llmText' = t
    /\ qpc' = "return"
    /\ UNCHANGED <<question, top_k, queryPolicy, results, context, prompt, answer>>

GenerateFail ==
    /\ qpc = "generate"
    /\ llmCalls' = Append(llmCalls, prompt)
    /\ qpc' = "raised"
    /\ answer' = [kind |-> "error", stage |-> "generate"]
    /\ UNCHANGED <<question, top_k, queryPolicy, results, context, prompt, llmText>>

\* return {"answer": response.choices[0].message.content}
Return ==
    /\ qpc = "return"
    /\ answer' = [kind |-> "ok", answer |-> llmText]
    /\ qpc' = "returned"
    /\ UNCHANGED <<question, top_k, queryPolicy, results, context, prompt,
                   llmCalls, llmText>>

\* -------------------------------------------------------- the chunker alone
Chars == {"a", "b"}

SeqsUpTo(S, n) == UNION {[1..k -> S] : k \in 0..n}

ApplyChunk ==
    /\ cpc = "in"
    /\ cout' = Chunk(cin.text, cin.size)
    /\ cpc' = "out"
    /\ UNCHANGED cin

\* ----------------------------------------------------------- specifications
QueryIdle ==
    /\ qpc = "idle"
    /\ question = <<>>
    /\ top_k = 0
    /\ queryPolicy = "strict"
    /\ results = <<>>
    /\ context = <<>>
    /\ prompt = <<>>
    /\ llmCalls = <<>>
    /\ llmText = <<>>
    /\ answer = NoResponse

ChunkerIdle ==
    /\ cpc = "out"
    /\ cin = [text |-> <<>>, size |-> 1]
    /\ cout = <<>>

\* The ingestion batch: /update requests, one at a time, on a new store.
Init == PipelineInit /\ QueryIdle /\ ChunkerIdle

Next ==
    \/ \E limit \in 1..MaxItems : Fetch(limit) /\ UNCHANGED <<qvars, cvars>>
    \/ FetchFail /\ UNCHANGED <<qvars, cvars>>
    \/ LoopEnd /\ UNCHANGED <<qvars, cvars>>
    \/ Skip /\ UNCHANGED <<qvars, cvars>>
    \/ Enter /\ UNCHANGED <<qvars, cvars>>
    \/ Download /\ UNCHANGED <<qvars, cvars>>
    \/ DownloadFail /\ UNCHANGED <<qvars, cvars>>
    \/ ExtractAudio /\ UNCHANGED <<qvars, cvars>>
    \/ ExtractAudioFail /\ UNCHANGED <<qvars, cvars>>
    \/ \E t \in Texts : Transcribe(t) /\ UNCHANGED <<qvars, cvars>>
    \/ TranscribeFail /\ UNCHANGED <<qvars, cvars>>
    \/ WriteTranscript /\ UNCHANGED <<qvars, cvars>>
    \/ WriteTranscriptFail /\ UNCHANGED <<qvars, cvars>>
    \/ ChunkText /\ UNCHANGED <<qvars, cvars>>
    \/ IndexChunk /\ UNCHANGED <<qvars, cvars>>
    \/ IndexChunkFail /\ UNCHANGED <<qvars, cvars>>
    \/ ItemDone /\ UNCHANGED <<qvars, cvars>>
    \/ Persist /\ UNCHANGED <<qvars, cvars>>

Spec == Init /\ [][Next]_vars

\* The collection after one batch over the whole account in which nothing
\* failed and the videos were transcribed as t says.
IndexedEntries(pk, t) ==
    [k \in 1..NumChunks(t, chunk_size) |->
        Entry(pk, k - 1, Chunk(t, chunk_size)[k], DownloadPath(pk))]

StoreOf(a, t) ==
    Concat([i \in 1..Len(a) |->
        IF IsVideo(a[i]) THEN IndexedEntries(a[i].pk, t[i]) ELSE <<>>])

QueryStores(a) == {StoreOf(a, t) : t \in [1..Len(a) -> Texts]}

\* The query path: /query requests, one at a time, on a collection that an
\* ingestion batch has written.
QueryInit ==
    /\ account \in Accounts
    /\ addPolicy = "raise"
    /\ pc = "idle"
    /\ runs = 0
    /\ medias = <<>>
    /\ idx = 1
    /\ video_path = NoPath
    /\ text = <<>>
    /\ chunks = <<>>
    /\ ci = 0
    /\ store \in QueryStores(account)
    /\ persisted = store
    /\ files = <<>>
    /\ trace = <<>>
    /\ response = NoResponse
    /\ qpc = "idle"
    /\ question = <<>>
    /\ top_k = 0
    /\ queryPolicy \in QueryPolicies
    /\ results = <<>>
    /\ context = <<>>
    /\ prompt = <<>>
    /\ llmCalls = <<>>
    /\ llmText = <<>>
    /\ answer = NoResponse
    /\ ChunkerIdle

QueryNext ==
    \/ \E q \in Questions, k \in 1..MaxTopK :
          QueryRequest(q, k) /\ UNCHANGED <<pvars, cvars>>
    \/ \E r \in Rankings(store, top_k) : Retrieve(r) /\ UNCHANGED <<pvars, cvars>>
    \/ RetrieveFail /\ UNCHANGED <<pvars, cvars>>
    \/ \E t \in LlmTexts : Generate(t) /\ UNCHANGED <<pvars, cvars>>
    \/ GenerateFail /\ UNCHANGED <<pvars, cvars>>
    \/ Return /\ UNCHANGED <<pvars, cvars>>

SpecQuery == QueryInit /\ [][QueryNext]_vars

\* The chunker on every short text over two characters and every small size,
\* and on texts around one and two chunks of the size run_pipeline uses.
LongTexts ==
    Texts \cup {Speech("a", n) : n \in {chunk_size - 1, chunk_size, 2 * chunk_size}}

ChunkInit ==
    /\ PipelineInit
    /\ account \in {a \in Accounts : a[1].media_type = VIDEO}
    /\ addPolicy = "raise"
    /\ QueryIdle
    /\ cpc = "in"
    /\ cin \in [text : SeqsUpTo(Chars, MaxLen), size : 1..MaxSize]
              \cup [text : LongTexts, size : {chunk_size}]
    /\ cout = <<>>

ChunkNext == ApplyChunk /\ UNCHANGED <<pvars, qvars>>

SpecChunk == ChunkInit /\ [][ChunkNext]_vars

\* ===================================================================
\* Properties
\* ===================================================================
Range(f) == {f[k] : k \in DOMAIN f}

ChunkTag == <<"_", "c", "h", "u", "n", "k", "_">>

\* s.startswith(p)
StartsWith(s, p) == Len(p) <= Len(s) /\ SubSeq(s, 1, Len(p)) = p

\* the request has ended, and it had fetched a batch
BatchEnded == pc \in {"done", "raised"} /\ medias # <<>>

\* C1: a step of an eligible item that fails aborts that item only: when the
\* request ends, every other video of the batch has been taken through its
\* indexing loop.
C1_FailureAbortsItemOnly ==
    (pc = "raised" /\ medias # <<>>) =>
        \A j \in 1..Len(medias) :
            (j # idx /\ medias[j].media_type = VIDEO) =>
                Ev("done", medias[j].pk) \in Range(trace)

\* q = ceil(a / b)
IsCeil(q, a, b) == q * b >= a /\ (q - 1) * b < a

\* C2: the chunks of a text s for a size n > 0 are ceil(len(s)/n) many, none is
\* empty, all but possibly the last have length n, their concatenation in
\* order is s, and the empty text has no chunks.
C2_ChunksPartitionText ==
    cpc = "out" =>
        /\ IsCeil(Len(cout), Len(cin.text), cin.size)
        /\ Concat(cout) = cin.text
        /\ \A k \in 1..Len(cout) : cout[k] # <<>>
        /\ \A k \in 1..(Len(cout) - 1) : Len(cout[k]) = cin.size
        /\ cin.text = <<>> => cout = <<>>

\* a text that is cut into at least two chunks, the last one shorter
C2_Witness ==
    /\ cpc = "out"
    /\ Len(cout) >= 2
    /\ Len(cout[Len(cout)]) < cin.size
    /\ cout[1] # cout[2]

\* C3: an insert with an id the store holds replaces the entry: it does not
\* fail, the store never holds an id twice, and the entry of the id last
\* inserted carries the text just inserted.
C3_InsertReplaces ==
    /\ (pc = "index" /\ ci <= Len(chunks)) =>
            ~AddRaises(store, NewEntry, addPolicy)
    /\ \A i, j \in 1..Len(store) : i # j => store[i].id # store[j].id
    /\ (pc = "index" /\ ci > 1) =>
            \A k \in 1..Len(store) :
                store[k].id = ChunkId(m.pk, ci - 2) =>
                    store[k].document = chunks[ci - 1]

\* what the run has done with the item of media id pk
StepsOf(pk) == {trace[k].op : k \in {n \in 1..Len(trace) : trace[n].pk = pk}}

\* C4 as stated: an item that is not a video is skipped without an error,
\* nothing is done with it, and no id in the store starts with its identifier.
C4_NoIdStartsWithSkippedId ==
    \A j \in 1..Len(medias) :
        medias[j].media_type # VIDEO =>
            /\ idx = j => pc = "loop"
            /\ StepsOf(medias[j].pk) \subseteq {"skip"}
            /\ j < idx => "skip" \in StepsOf(medias[j].pk)
            /\ \A k \in 1..Len(store) :
                   ~StartsWith(store[k].id, Str(medias[j].pk))

\* C4 as amended: ... and no id in the store is a chunk id of that item
\* (its identifier followed by _chunk_).
C4_NonVideoSkipped ==
    \A j \in 1..Len(medias) :
        medias[j].media_type # VIDEO =>
            /\ idx = j => pc = "loop"
            /\ StepsOf(medias[j].pk) \subseteq {"skip"}
            /\ j < idx => "skip" \in StepsOf(medias[j].pk)
            /\ \A k \in 1..Len(store) :
                   ~StartsWith(store[k].id, Str(medias[j].pk) \o ChunkTag)

\* a batch that skipped an item, indexed a video behind it and ended well
C4_Witness ==
    /\ pc = "done"
    /\ \E j \in 1..Len(medias), k \in 1..Len(trace) :
          /\ medias[j].media_type # VIDEO
          /\ trace[k] = Ev("skip", medias[j].pk)
          /\ \E n \in (k + 1)..Len(trace) : trace[n].op = "add"

\* C5: the transcript file holds the whole transcript while the item is
\* indexed and after its indexing has failed, and every insert of an item
\* comes after the write of its transcript.
C5_TranscriptWrittenBeforeIndexing ==
    /\ (pc = "index" \/ (pc = "raised" /\ response.stage = "index")) =>
            /\ transcript_path \in DOMAIN files
            /\ files[transcript_path] = text
    /\ \A k \in 1..Len(trace) :
            trace[k].op = "add" =>
                \E n \in 1..(k - 1) : trace[n] = Ev("write", trace[k].pk)

\* the insert of the second chunk of a transcript has failed
C5_Witness ==
    /\ pc = "raised"
    /\ response.stage = "index"
    /\ ci = 2
    /\ Len(text) > chunk_size
    /\ files[transcript_path] = text

\* C6: a batch that ends well has persisted the store once, as its last step:
\* behind every insert, and not while the batch is going on.
C6_PersistOnceAtEnd ==
    /\ \A k \in 1..Len(trace) :
            trace[k].op = "persist" => (k = Len(trace) /\ pc = "done")
    /\ pc = "done" => (trace # <<>> /\ trace[Len(trace)].op = "persist")
    /\ pc = "done" => persisted = store

\* a batch that indexed two videos and ended well
C6_Witness ==
    /\ pc = "done"
    /\ \E j, k \in 1..Len(trace) :
          /\ trace[j].op = "add"
          /\ trace[k].op = "add"
          /\ trace[j].pk # trace[k].pk

\* C7: on a store with no entries, the generation model is not called and
\* no answer is returned as a success.
C7_NoAnswerFromEmptyStore ==
    store = <<>> => (llmCalls = <<>> /\ answer.kind # "ok")

\* C8: the context is the retrieved documents, in the order returned, joined
\* by line breaks; the model is called at most once, with the prompt made of
\* that context and the question; the answer is the model's text; the store
\* is as it was.
C8_AnswerFromRetrievedContext ==
    /\ Len(llmCalls) <= 1
    /\ store = persisted
    /\ qpc \in {"generate", "return", "returned"} =>
            /\ context = Join(results, <<"\n">>)
            /\ prompt = <<PromptHead>> \o context \o <<PromptQuestion>> \o question
    /\ qpc \in {"return", "returned"} => llmCalls = <<prompt>>
    /\ qpc = "returned" => answer = [kind |-> "ok", answer |-> llmText]

\* an answer from two different documents
C8_Witness ==
    /\ qpc = "returned"
    /\ Len(results) = 2
    /\ results[1] # results[2]
    /\ llmText # <<>>

\* C9: a request that ends reports how many items it processed, skipped and
\* failed, and the three add up to the number of items fetched.
C9_ReportsCounts ==
    BatchEnded =>
        /\ {"processed", "skipped", "failed"} \subseteq DOMAIN response
        /\ response.processed + response.skipped + response.failed = Len(medias)

\* the chunk ids the item being indexed can write
NewIds ==
    IF pc = "index" THEN {ChunkId(m.pk, i) : i \in 0..(Len(chunks) - 1)} ELSE {}

\* C10: no step deletes or changes an entry of the store under an id other
\* than the chunk ids 0..k-1 of the item being indexed, and no step writes
\* another id: the ids k..m-1 of an earlier run stay, with their text.
C10_StaleChunksStay ==
    [][/\ \A x \in Range(store) : x.id \notin NewIds => x \in Range(store')
       /\ \A y \in Range(store') : y \notin Range(store) => y.id \in NewIds]_vars

\* a video indexed again with one chunk, the store holding its chunk 1
C10_Witness ==
    /\ pc = "index"
    /\ runs = 2
    /\ Len(chunks) = 1
    /\ ci = 2
    /\ \E k \in 1..Len(store) :
          /\ store[k].id = ChunkId(m.pk, 1)
          /\ store[k].document # <<>>

====
